---------------------------- MODULE Spec2Model ----------------------------
(***************************************************************************)
(* djorm_pgarray/fields.py: the array model field (ArrayField), the array  *)
(* form field (ArrayFormField) and its de-duplicating variant              *)
(* (SetFormField), with the helpers _cast_to_unicode, _cast_to_type and    *)
(* _unserialize.                                                           *)
(*                                                                         *)
(* Python values are tagged records:                                       *)
(*   None        [k |-> "none"]                                            *)
(*   int         [k |-> "int",   i |-> n]                                  *)
(*   float       [k |-> "float", num |-> n, exp |-> d]   (n / 10^d,        *)
(*               d = 0 or n not divisible by 10)                           *)
(*   text        [k |-> "str",   s |-> <<"a", "b">>]     (one character    *)
(*               per element)                                              *)
(*   list        [k |-> "list",  items |-> <<...>>]                        *)
(*   tuple       [k |-> "tuple", items |-> <<...>>]                        *)
(*   dict        [k |-> "dict"]                          (only {})         *)
(* The outcome of a call is [exc, msg, val]: exc = "" for a return of val, *)
(* otherwise the name of the exception raised.                             *)
(***************************************************************************)
EXTENDS Integers, Sequences, FiniteSets

VARIABLES
    self,       \* the field object the calls are made on
    kwargs,     \* the keyword arguments it was constructed with
    op,         \* the last operation
    arg,        \* the value the last call was made with
    prepared,   \* the `prepared` argument of the last get_db_prep_value call
    cast,       \* the `type_cast` argument of the last _cast_to_type call
    first,      \* the call whose result the last call was made with, if any
    out         \* the outcome of the last call

vars == <<self, kwargs, op, arg, prepared, cast, first, out>>

-----------------------------------------------------------------------------
(* Python values *)

None == [k |-> "none"]
PyInt(n) == [k |-> "int", i |-> n]
PyFloat(n, d) == [k |-> "float", num |-> n, exp |-> d]
PyStr(cs) == [k |-> "str", s |-> cs]
PyList(xs) == [k |-> "list", items |-> xs]
PyTuple(xs) == [k |-> "tuple", items |-> xs]
PyDict == [k |-> "dict"]

\* isinstance(x, six.string_types)
IsString(x) == x.k = "str"

\* isinstance(x, (list, tuple))
IsListOrTuple(x) == x.k \in {"list", "tuple"}

\* Python truthiness: `not value` is ~Truthy(value)
Truthy(x) ==
    CASE x.k = "none" -> FALSE
      [] x.k = "int" -> x.i # 0
      [] x.k = "float" -> x.num # 0
      [] x.k = "str" -> x.s # <<>>
      [] x.k \in {"list", "tuple"} -> x.items # <<>>
      [] x.k = "dict" -> FALSE

(* Outcomes *)

Return(v) == [exc |-> "", msg |-> "", val |-> v]
Raise(e) == [exc |-> e, msg |-> "", val |-> None]
RaiseMsg(e, m) == [exc |-> e, msg |-> m, val |-> None]
IsReturn(o) == o.exc = ""

-----------------------------------------------------------------------------
(* Characters and text *)

Digits == <<"0", "1", "2", "3", "4", "5", "6", "7", "8", "9">>

IsDigit(c) == \E d \in 1..10 : Digits[d] = c

DigitVal(c) == (CHOOSE d \in 1..10 : Digits[d] = c) - 1

\* whitespace that str.strip(), int() and float() skip
IsSpace(c) == c = " "

AllDigits(cs) == \A n \in 1..Len(cs) : IsDigit(cs[n])

RECURSIVE DecimalValue(_)
DecimalValue(cs) ==
    IF cs = <<>> THEN 0
    ELSE 10 * DecimalValue(SubSeq(cs, 1, Len(cs) - 1)) + DigitVal(cs[Len(cs)])

RECURSIVE NatToChars(_)
NatToChars(n) ==
    IF n < 10 THEN <<Digits[n + 1]>>
    ELSE NatToChars(n \div 10) \o <<Digits[(n % 10) + 1]>>

\* str(n) for an int
IntToChars(n) == IF n < 0 THEN <<"-">> \o NatToChars(0 - n) ELSE NatToChars(n)

RECURSIVE LStrip(_)
LStrip(cs) ==
    IF cs # <<>> /\ IsSpace(cs[1]) THEN LStrip(Tail(cs)) ELSE cs

RECURSIVE RStrip(_)
RStrip(cs) ==
    IF cs # <<>> /\ IsSpace(cs[Len(cs)])
    THEN RStrip(SubSeq(cs, 1, Len(cs) - 1))
    ELSE cs

\* str.strip()
Strip(cs) == RStrip(LStrip(cs))

\* index of the first occurrence of c in cs, 0 when there is none
RECURSIVE FindFrom(_, _, _)
FindFrom(cs, c, n) ==
    IF n > Len(cs) THEN 0
    ELSE IF cs[n] = c THEN n
    ELSE FindFrom(cs, c, n + 1)

Find(cs, c) == FindFrom(cs, c, 1)

RECURSIVE Pow10(_)
Pow10(d) == IF d = 0 THEN 1 ELSE 10 * Pow10(d - 1)

\* a float n / 10^d in its normal form
RECURSIVE NormFloat(_, _)
NormFloat(n, d) ==
    IF d > 0 /\ n % 10 = 0 THEN NormFloat(n \div 10, d - 1) ELSE PyFloat(n, d)

RECURSIVE ZeroPad(_, _)
ZeroPad(cs, w) == IF Len(cs) >= w THEN cs ELSE ZeroPad(<<"0">> \o cs, w)

\* repr(x) for a float: "1.0", "1.5", "0.05"
FloatToChars(x) ==
    LET a == IF x.num < 0 THEN 0 - x.num ELSE x.num
        sign == IF x.num < 0 THEN <<"-">> ELSE <<>>
    IN  IF x.exp = 0 THEN sign \o NatToChars(a) \o <<".", "0">>
        ELSE sign \o NatToChars(a \div Pow10(x.exp)) \o <<".">>
                  \o ZeroPad(NatToChars(a % Pow10(x.exp)), x.exp)

-----------------------------------------------------------------------------
(* The conversions TYPES names, and django.utils.encoding.force_text *)

\* int(x)
PyIntOf(x) ==
    CASE x.k = "int" -> Return(x)
      [] x.k = "float" -> Return(PyInt(x.num \div Pow10(x.exp)))
      [] x.k = "str" ->
            LET t == Strip(x.s)
            IN  IF t # <<>> /\ AllDigits(t) THEN Return(PyInt(DecimalValue(t)))
                ELSE Raise("ValueError")
      [] OTHER -> Raise("TypeError")

\* float(x): digits, with an optional "." and digits on either side of it
PyFloatOf(x) ==
    CASE x.k = "int" -> Return(PyFloat(x.i, 0))
      [] x.k = "float" -> Return(x)
      [] x.k = "str" ->
            LET t == Strip(x.s)
                dot == Find(t, ".")
                ip == IF dot = 0 THEN t ELSE SubSeq(t, 1, dot - 1)
                fp == IF dot = 0 THEN <<>> ELSE SubSeq(t, dot + 1, Len(t))
            IN  IF AllDigits(ip) /\ AllDigits(fp) /\ ip \o fp # <<>>
                THEN Return(NormFloat(DecimalValue(ip \o fp), Len(fp)))
                ELSE Raise("ValueError")
      [] OTHER -> Raise("TypeError")

\* force_text(x)
force_text(x) ==
    CASE x.k = "str" -> x
      [] x.k = "int" -> PyStr(IntToChars(x.i))
      [] x.k = "float" -> PyStr(FloatToChars(x))
      [] x.k = "none" -> PyStr(<<"N", "o", "n", "e">>)
      [] x.k = "dict" -> PyStr(<<"{", "}">>)


-----------------------------------------------------------------------------
(* fields.py helpers *)

\* the first raising outcome of a sequence of outcomes (a list comprehension
\* stops at the first element whose conversion raises), or the list of values
CollectList(os) ==
    IF \E n \in 1..Len(os) : ~IsReturn(os[n])
    THEN os[CHOOSE n \in 1..Len(os) :
                /\ ~IsReturn(os[n])
                /\ \A m \in 1..(n - 1) : IsReturn(os[m])]
    ELSE Return(PyList([n \in 1..Len(os) |-> os[n].val]))

\* _cast_to_unicode, with `force` taken as set: every scalar is made text
RECURSIVE _cast_to_unicode_forced(_, _)
_cast_to_unicode_forced(data, force) ==
    IF IsListOrTuple(data)
    THEN PyList([n \in 1..Len(data.items) |-> _cast_to_unicode_forced(data.items[n], force)])
    ELSE force_text(data)

\* _cast_to_unicode(data, force)
RECURSIVE _cast_to_unicode(_, _)
_cast_to_unicode(data, force) ==
    IF IsListOrTuple(data)
    THEN PyList([n \in 1..Len(data.items) |-> _cast_to_unicode(data.items[n], force)])
    ELSE IF IsString(data) \/ force THEN force_text(data)
    ELSE data

\* type_cast(data) for the callables a field can hold: int, float, str and
\* the default `lambda x: x`
CallTypeCast(type_cast, data) ==
    CASE type_cast = "int" -> PyIntOf(data)
      [] type_cast = "float" -> PyFloatOf(data)
      [] type_cast = "str" -> Return(force_text(data))
      [] type_cast = "identity" -> Return(data)

\* the scalar branch of _cast_to_type
CastLeaf(data, type_cast) ==
    IF type_cast = "str" THEN Return(force_text(data))
    ELSE CallTypeCast(type_cast, data)

\* _cast_to_type, without the recursion: a nested sequence is passed on as
\* it is
_cast_to_type_shallow(data, type_cast) ==
    IF IsListOrTuple(data)
    THEN CollectList([n \in 1..Len(data.items) |->
             IF IsListOrTuple(data.items[n]) THEN Return(data.items[n])
             ELSE CastLeaf(data.items[n], type_cast)])
    ELSE CastLeaf(data, type_cast)

\* _cast_to_type, with a failed conversion swallowed: the scalar is kept
RECURSIVE _cast_to_type_lenient(_, _)
_cast_to_type_lenient(data, type_cast) ==
    IF IsListOrTuple(data)
    THEN CollectList([n \in 1..Len(data.items) |->
             _cast_to_type_lenient(data.items[n], type_cast)])
    ELSE IF IsReturn(CastLeaf(data, type_cast)) THEN CastLeaf(data, type_cast)
    ELSE Return(data)

\* _cast_to_type(data, type_cast)
RECURSIVE _cast_to_type(_, _)
_cast_to_type(data, type_cast) ==
    IF IsListOrTuple(data)
    THEN CollectList([n \in 1..Len(data.items) |-> _cast_to_type(data.items[n], type_cast)])
    ELSE CastLeaf(data, type_cast)

-----------------------------------------------------------------------------
(* json.loads, on text over the characters the model draws from: digits,   *)
(* ".", letters, ",", " ", braces, brackets, the double quote and the      *)
(* backslash.  There is no "-", no exponent, no ":" and no literal (true,  *)
(* false, null) among them, so a number is digits with an optional         *)
(* fraction and the only object is {}.  In a string a backslash escapes    *)
(* the character after it; \b and \uXXXX, whose results are not among the  *)
(* characters, are left out.                                               *)

RECURSIVE SkipWs(_, _)
SkipWs(s, i) == IF i <= Len(s) /\ IsSpace(s[i]) THEN SkipWs(s, i + 1) ELSE i

RECURSIVE SkipDigits(_, _)
SkipDigits(s, i) == IF i <= Len(s) /\ IsDigit(s[i]) THEN SkipDigits(s, i + 1) ELSE i

JsonFail == [ok |-> FALSE, val |-> None, pos |-> 0]
JsonOk(v, p) == [ok |-> TRUE, val |-> v, pos |-> p]

\* NUMBER_RE: (0|[1-9]\d*)(\.\d+)? matched at i, where s[i] is a digit
JsonNumber(s, i) ==
    LET ie == IF s[i] = "0" THEN i + 1 ELSE SkipDigits(s, i)
        fe == IF ie <= Len(s) /\ s[ie] = "." THEN SkipDigits(s, ie + 1) ELSE ie
    IN  IF fe > ie + 1
        THEN JsonOk(NormFloat(DecimalValue(SubSeq(s, i, ie - 1) \o SubSeq(s, ie + 1, fe - 1)),
                              fe - ie - 1), fe)
        ELSE JsonOk(PyInt(DecimalValue(SubSeq(s, i, ie - 1))), ie)

\* BACKSLASH of json.decoder: the character an escape stands for, "" for a
\* character that makes an invalid escape
JsonEscape(c) ==
    CASE c = "\"" -> "\""
      [] c = "\\" -> "\\"
      [] c = "/" -> "/"
      [] c = "f" -> "\f"
      [] c = "n" -> "\n"
      [] c = "r" -> "\r"
      [] c = "t" -> "\t"
      [] OTHER -> ""

\* the loop of scanstring: s[i] is the next character of the string, acc the
\* characters decoded so far
RECURSIVE JsonStringChars(_, _, _)
JsonStringChars(s, i, acc) ==
    IF i > Len(s) THEN JsonFail
    ELSE IF s[i] = "\"" THEN JsonOk(PyStr(acc), i + 1)
    ELSE IF s[i] # "\\" THEN JsonStringChars(s, i + 1, Append(acc, s[i]))
    ELSE IF i = Len(s) THEN JsonFail
    ELSE IF JsonEscape(s[i + 1]) = "" THEN JsonFail
    ELSE JsonStringChars(s, i + 2, Append(acc, JsonEscape(s[i + 1])))

\* scanstring: s[i] is the opening quote
JsonString(s, i) == JsonStringChars(s, i + 1, <<>>)

\* JSONObject: s[i] is "{"; a member needs a ":", so only {} decodes
JsonObject(s, i) ==
    LET j == SkipWs(s, i + 1)
    IN  IF j <= Len(s) /\ s[j] = "}" THEN JsonOk(PyDict, j + 1) ELSE JsonFail

RECURSIVE JsonScanOnce(_, _)
RECURSIVE JsonArrayItems(_, _, _)

\* the loop of JSONArray: a value is expected at i, acc holds those decoded
JsonArrayItems(s, i, acc) ==
    LET v == JsonScanOnce(s, i)
        j == SkipWs(s, v.pos)
    IN  IF ~v.ok THEN JsonFail
        ELSE IF j > Len(s) THEN JsonFail
        ELSE IF s[j] = "]" THEN JsonOk(PyList(Append(acc, v.val)), j + 1)
        ELSE IF s[j] = "," THEN JsonArrayItems(s, SkipWs(s, j + 1), Append(acc, v.val))
        ELSE JsonFail

\* JSONArray: s[i] is "["
JsonArray(s, i) ==
    LET j == SkipWs(s, i + 1)
    IN  IF j <= Len(s) /\ s[j] = "]" THEN JsonOk(PyList(<<>>), j + 1)
        ELSE JsonArrayItems(s, j, <<>>)

\* scan_once(s, i)
JsonScanOnce(s, i) ==
    IF i > Len(s) THEN JsonFail
    ELSE IF s[i] = "\"" THEN JsonString(s, i)
    ELSE IF s[i] = "{" THEN JsonObject(s, i)
    ELSE IF s[i] = "[" THEN JsonArray(s, i)
    ELSE IF IsDigit(s[i]) THEN JsonNumber(s, i)
    ELSE JsonFail

\* json.loads(value) for a text value: a JSONDecodeError is a ValueError
json_loads(value) ==
    LET v == JsonScanOnce(value.s, SkipWs(value.s, 1))
    IN  IF v.ok /\ SkipWs(value.s, v.pos) = Len(value.s) + 1
        THEN Return(v.val)
        ELSE Raise("ValueError")

\* _unserialize(value)
_unserialize(value) ==
    IF ~IsString(value) THEN _cast_to_unicode(value, FALSE)
    ELSE LET r == json_loads(value)
         IN  IF IsReturn(r) THEN _cast_to_unicode(r.val, FALSE)
             ELSE _cast_to_unicode(value, FALSE)

-----------------------------------------------------------------------------
(* djorm_pgarray/utils.py: parse_array and edit_string_for_array, the      *)
(* array codec.  utils.py is not among the sources; the codec is modelled  *)
(* from its specification (sections 1, 3 and 4.1, and the glossary's array *)
(* literal).  Parse splits the text on the commas outside any braces,      *)
(* brackets or quoted text, trims each token, parses a token wrapped in    *)
(* braces or brackets as a nested array and leaves every other token as    *)
(* text, a quoted token as the text it quotes; blank text is the empty     *)
(* sequence; unbalanced or mismatched braces and an unclosed quote are a   *)
(* ParseError, which ArrayFormField.to_python catches as ValueError.       *)
(* Serialize renders each element as text, a nested sequence wrapped in    *)
(* braces and None as the empty token, joined with commas; it re-escapes   *)
(* text that Parse would not give back as it is (empty text, text with a   *)
(* delimiter, a quote or a backslash in it, or whitespace around it) the   *)
(* way an array literal does: in double quotes, with a backslash before    *)
(* every quote and backslash.                                              *)

IsOpener(c) == c \in {"{", "["}
IsCloser(c) == c \in {"}", "]"}
CloserOf(c) == IF c = "{" THEN "}" ELSE "]"
IsQuote(c) == c = "\""
IsEscape(c) == c = "\\"

SplitFail == [ok |-> FALSE, toks |-> <<>>]

\* the tokens of cs[i..]: stack holds the open braces, inq says whether cs[i]
\* is inside quoted text, cur is the token so far
RECURSIVE SplitTop(_, _, _, _, _, _)
SplitTop(cs, i, stack, inq, cur, acc) ==
    IF i > Len(cs)
    THEN IF stack # <<>> \/ inq THEN SplitFail
         ELSE [ok |-> TRUE, toks |-> Append(acc, cur)]
    ELSE LET c == cs[i]
         IN  IF inq
             THEN IF IsEscape(c)
                  THEN IF i = Len(cs) THEN SplitFail
                       ELSE SplitTop(cs, i + 2, stack, TRUE,
                                     cur \o <<c, cs[i + 1]>>, acc)
                  ELSE SplitTop(cs, i + 1, stack, ~IsQuote(c), Append(cur, c), acc)
             ELSE IF IsQuote(c)
             THEN SplitTop(cs, i + 1, stack, TRUE, Append(cur, c), acc)
             ELSE IF IsOpener(c)
             THEN SplitTop(cs, i + 1, Append(stack, c), FALSE, Append(cur, c), acc)
             ELSE IF IsCloser(c)
             THEN IF stack = <<>> \/ CloserOf(stack[Len(stack)]) # c
                  THEN SplitFail
                  ELSE SplitTop(cs, i + 1, SubSeq(stack, 1, Len(stack) - 1),
                                FALSE, Append(cur, c), acc)
             ELSE IF c = "," /\ stack = <<>>
             THEN SplitTop(cs, i + 1, stack, FALSE, <<>>, Append(acc, cur))
             ELSE SplitTop(cs, i + 1, stack, FALSE, Append(cur, c), acc)

\* a token that looks like a nested array
LooksNested(t) ==
    /\ Len(t) >= 2
    /\ IsOpener(t[1])
    /\ t[Len(t)] = CloserOf(t[1])

\* the place of the quote that closes the quoted text t[i..] is in, 0 when
\* there is none
RECURSIVE ClosingQuote(_, _)
ClosingQuote(t, i) ==
    IF i > Len(t) THEN 0
    ELSE IF IsEscape(t[i]) THEN ClosingQuote(t, i + 2)
    ELSE IF IsQuote(t[i]) THEN i
    ELSE ClosingQuote(t, i + 1)

\* a token that is one quoted text
IsQuoted(t) ==
    /\ Len(t) >= 2
    /\ IsQuote(t[1])
    /\ ClosingQuote(t, 2) = Len(t)

\* quoted text without its backslashes
RECURSIVE Unescape(_)
Unescape(cs) ==
    IF cs = <<>> THEN <<>>
    ELSE IF IsEscape(cs[1]) /\ Len(cs) >= 2
    THEN <<cs[2]>> \o Unescape(SubSeq(cs, 3, Len(cs)))
    ELSE <<cs[1]>> \o Unescape(Tail(cs))

\* Parse of the characters cs
RECURSIVE ParseChars(_)
ParseChars(cs) ==
    IF Strip(cs) = <<>> THEN Return(PyList(<<>>))
    ELSE LET sp == SplitTop(cs, 1, <<>>, FALSE, <<>>, <<>>)
             tok(n) == Strip(sp.toks[n])
         IN  IF ~sp.ok THEN Raise("ValueError")
             ELSE CollectList([n \in 1..Len(sp.toks) |->
                      IF LooksNested(tok(n))
                      THEN ParseChars(SubSeq(tok(n), 2, Len(tok(n)) - 1))
                      ELSE IF IsQuoted(tok(n))
                      THEN Return(PyStr(Unescape(SubSeq(tok(n), 2, Len(tok(n)) - 1))))
                      ELSE Return(PyStr(tok(n)))])

\* parse_array(string)
parse_array(string) == ParseChars(string.s)

RECURSIVE JoinComma(_)
JoinComma(parts) ==
    IF parts = <<>> THEN <<>>
    ELSE IF Len(parts) = 1 THEN parts[1]
    ELSE parts[1] \o <<",">> \o JoinComma(Tail(parts))

\* text that Parse would not give back as it is
NeedsQuoting(cs) ==
    \/ cs = <<>>
    \/ Strip(cs) # cs
    \/ \E n \in 1..Len(cs) : cs[n] = "," \/ IsOpener(cs[n]) \/ IsCloser(cs[n])
                                \/ IsQuote(cs[n]) \/ IsEscape(cs[n])

\* cs with a backslash before every quote and backslash
RECURSIVE Escape(_)
Escape(cs) ==
    IF cs = <<>> THEN <<>>
    ELSE IF IsQuote(cs[1]) \/ IsEscape(cs[1])
    THEN <<"\\", cs[1]>> \o Escape(Tail(cs))
    ELSE <<cs[1]>> \o Escape(Tail(cs))

\* the token of a scalar's text, with the re-escaping left out
QuoteText_plain(cs) == cs

\* the token of a scalar's text
QuoteText(cs) ==
    IF NeedsQuoting(cs) THEN <<"\"">> \o Escape(cs) \o <<"\"">> ELSE cs

\* Serialize of the elements xs
RECURSIVE SerializeItems(_)
SerializeItems(xs) ==
    JoinComma([n \in 1..Len(xs) |->
        IF IsListOrTuple(xs[n]) THEN <<"{">> \o SerializeItems(xs[n].items) \o <<"}">>
        ELSE IF xs[n] = None THEN <<>>
        ELSE QuoteText(force_text(xs[n]).s)])

\* edit_string_for_array(array), array an ordered sequence
edit_string_for_array(array) == Return(PyStr(SerializeItems(array.items)))

-----------------------------------------------------------------------------
(* Python ordering, hashing, set() and list.sort() *)

\* the characters in code point order
CodePointOrder ==
    <<" ", "\"", "(", ",", "-", ".", "0", "1", "2", "3", "4", "5", "6", "7", "8", "9",
      "N", "[", "\\", "]", "a", "b", "e", "n", "o", "{", "}">>

Ord(c) == CHOOSE n \in 1..Len(CodePointOrder) : CodePointOrder[n] = c

IsNumber(x) == x.k \in {"int", "float"}
NumNum(x) == IF x.k = "int" THEN x.i ELSE x.num
NumExp(x) == IF x.k = "int" THEN 0 ELSE x.exp

Order(a, b) == IF a < b THEN "lt" ELSE IF a > b THEN "gt" ELSE "eq"

\* a == b
PyEq(a, b) ==
    IF IsNumber(a) /\ IsNumber(b)
    THEN NumNum(a) * Pow10(NumExp(b)) = NumNum(b) * Pow10(NumExp(a))
    ELSE a = b

RECURSIVE CompareChars(_, _)
CompareChars(a, b) ==
    IF a = <<>> \/ b = <<>> THEN Order(Len(a), Len(b))
    ELSE IF a[1] # b[1] THEN Order(Ord(a[1]), Ord(b[1]))
    ELSE CompareChars(Tail(a), Tail(b))

\* a < b, a == b or a > b, or "err" where Python 3 raises TypeError
RECURSIVE Compare(_, _)
RECURSIVE CompareItems(_, _)
CompareItems(a, b) ==
    IF a = <<>> \/ b = <<>> THEN Order(Len(a), Len(b))
    ELSE IF ~PyEq(a[1], b[1]) THEN Compare(a[1], b[1])
    ELSE CompareItems(Tail(a), Tail(b))

Compare(a, b) ==
    IF IsNumber(a) /\ IsNumber(b)
    THEN Order(NumNum(a) * Pow10(NumExp(b)), NumNum(b) * Pow10(NumExp(a)))
    ELSE IF a.k = "str" /\ b.k = "str" THEN CompareChars(a.s, b.s)
    ELSE IF a.k = b.k /\ IsListOrTuple(a) THEN CompareItems(a.items, b.items)
    ELSE "err"

\* hash(x) succeeds
RECURSIVE Hashable(_)
Hashable(x) ==
    CASE x.k \in {"none", "int", "float", "str"} -> TRUE
      [] x.k = "tuple" -> \A n \in 1..Len(x.items) : Hashable(x.items[n])
      [] OTHER -> FALSE

\* the elements of S in ascending order, S totally ordered by Compare
RECURSIVE Ascending(_)
Ascending(S) ==
    IF S = {} THEN <<>>
    ELSE LET m == CHOOSE x \in S : \A y \in S \ {x} : Compare(x, y) = "lt"
         IN  <<m>> \o Ascending(S \ {m})

\* val = list(set(seq)); val.sort(); val
SetSorted(seq) ==
    IF seq.k = "dict" THEN Return(PyList(<<>>))
    ELSE IF ~IsListOrTuple(seq) THEN Raise("TypeError")
    ELSE LET S == {seq.items[n] : n \in 1..Len(seq.items)}
         IN  IF \E x \in S : ~Hashable(x) THEN Raise("TypeError")
             ELSE IF \E x, y \in S : x # y /\ Compare(x, y) = "err"
             THEN Raise("TypeError")
             ELSE Return(PyList(Ascending(S)))

-----------------------------------------------------------------------------
(* The form fields *)

ValidationMessage == "Please provide a comma-separated list of values."

\* forms.Field.prepare_value, the item field's
item_prepare_value(v) == v

\* ArrayFormField.prepare_value(self, value)
ArrayFormField_prepare_value(me, value) ==
    IF value # None /\ ~IsString(value)
    THEN IF me.item_field # "none"
         THEN IF IsListOrTuple(value)
              THEN edit_string_for_array(
                       PyList([n \in 1..Len(value.items) |->
                                   item_prepare_value(value.items[n])]))
              ELSE IF value.k = "dict" THEN edit_string_for_array(PyList(<<>>))
              ELSE Raise("TypeError")
         ELSE edit_string_for_array(value)
    ELSE Return(value)

\* ArrayFormField.to_python, without the except clause
ArrayFormField_to_python_uncaught(value) ==
    IF IsString(value) THEN parse_array(value) ELSE Return(value)

\* ArrayFormField.to_python(self, value)
ArrayFormField_to_python(value) ==
    IF IsString(value)
    THEN LET r == parse_array(value)
         IN  IF r.exc = "ValueError"
             THEN RaiseMsg("ValidationError", ValidationMessage)
             ELSE r
    ELSE Return(value)

\* the elements of seq, each at its first place
RECURSIVE FirstOccurrences(_)
FirstOccurrences(xs) ==
    IF xs = <<>> THEN <<>>
    ELSE LET front == FirstOccurrences(SubSeq(xs, 1, Len(xs) - 1))
             x == xs[Len(xs)]
         IN  IF \E n \in 1..Len(front) : front[n] = x THEN front ELSE Append(front, x)

\* SetFormField.to_python, without val.sort()
SetFormField_to_python_unsorted(value) ==
    IF value = None THEN Return(value)
    ELSE LET r == ArrayFormField_to_python(value)
         IN  IF ~IsReturn(r) THEN r
             ELSE IF IsReturn(SetSorted(r.val)) /\ IsListOrTuple(r.val)
             THEN Return(PyList(FirstOccurrences(r.val.items)))
             ELSE SetSorted(r.val)

\* SetFormField.to_python(self, value)
SetFormField_to_python(value) ==
    IF value = None THEN Return(value)
    ELSE LET r == ArrayFormField_to_python(value)
         IN  IF IsReturn(r) THEN SetSorted(r.val) ELSE r

-----------------------------------------------------------------------------
(* The model field *)

S_int == <<"i", "n", "t">>
S_smallint == <<"s", "m", "a", "l", "l", "i", "n", "t">>
S_bigint == <<"b", "i", "g", "i", "n", "t">>
S_text == <<"t", "e", "x", "t">>
S_double_precision ==
    <<"d", "o", "u", "b", "l", "e", " ", "p", "r", "e", "c", "i", "s", "i", "o", "n">>
S_varchar == <<"v", "a", "r", "c", "h", "a", "r">>

\* TYPES
TYPES ==
    [key \in {S_int, S_smallint, S_bigint, S_text, S_double_precision, S_varchar} |->
        CASE key = S_int -> "int"
          [] key = S_smallint -> "int"
          [] key = S_bigint -> "int"
          [] key = S_text -> "str"
          [] key = S_double_precision -> "float"
          [] key = S_varchar -> "str"]

\* string.split(sep)[0]
SplitHead(cs, sep) ==
    IF Find(cs, sep) = 0 THEN cs ELSE SubSeq(cs, 1, Find(cs, sep) - 1)

\* ArrayField.__init__, with the whole dbtype looked up in TYPES
ArrayField_new_nosplit(kw) ==
    LET array_type == IF kw.has_dbtype THEN kw.dbtype ELSE S_int
    IN  [cls |-> "ArrayField",
         _array_type |-> array_type,
         _type_cast |-> IF kw.has_type_cast THEN kw.type_cast
                        ELSE IF array_type \in DOMAIN TYPES THEN TYPES[array_type]
                        ELSE "identity",
         item_field |-> "none"]

\* ArrayField.__init__(self, **kwargs): kw.has_dbtype and
\* kw.has_type_cast say which keyword arguments are given
ArrayField_new(kw) ==
    LET array_type == IF kw.has_dbtype THEN kw.dbtype ELSE S_int
        type_key == SplitHead(array_type, "(")
    IN  [cls |-> "ArrayField",
         _array_type |-> array_type,
         _type_cast |-> IF kw.has_type_cast THEN kw.type_cast
                        ELSE IF type_key \in DOMAIN TYPES THEN TYPES[type_key]
                        ELSE "identity",
         item_field |-> "none"]

\* ArrayField.get_prep_value(self, value)
get_prep_value(value) == value

\* ArrayField.get_db_prep_value(self, value, connection, prepared)
ArrayField_get_db_prep_value(me, value, prep) ==
    LET v == IF prep THEN value ELSE get_prep_value(value)
    IN  IF ~Truthy(v) \/ IsString(v) THEN Return(v)
        ELSE _cast_to_type(v, me._type_cast)

\* ArrayField.to_python, with the ValueError of json.loads let through
ArrayField_to_python_strict(value) ==
    IF IsString(value) /\ ~IsReturn(json_loads(value)) THEN json_loads(value)
    ELSE Return(_unserialize(value))

\* ArrayField.to_python(self, value)
ArrayField_to_python(value) == Return(_unserialize(value))

\* ArrayFormField.__init__(self, **kwargs), inherited by SetFormField
FormField_new(cls, kw) ==
    [cls |-> cls,
     _array_type |-> <<>>,
     _type_cast |-> "",
     item_field |-> IF kw.has_item_field THEN kw.item_field ELSE "none"]

-----------------------------------------------------------------------------
(* The values the calls are made with *)

MaxStrLen == 3
MaxListLen == 2

Alphabet == {" ", ",", "1", "a", "{", "}", "[", "]", "\"", "\\"}

SeqsUpTo(S, n) == UNION {[1..m -> S] : m \in 0..n}

T_1 == PyStr(<<"1">>)
T_2 == PyStr(<<"2">>)
T_3 == PyStr(<<"3">>)
T_a == PyStr(<<"a">>)
T_b == PyStr(<<"b">>)
T_empty == PyStr(<<>>)

\* text the examples of the codec and of the fields use
ExampleTexts ==
    {PyStr(<<"{", "1", ",", "2", ",">>),
     PyStr(<<"3", ",", "1", ",", "2", ",", "1">>),
     PyStr(<<"{", "1", ",", "2", "}", ",", "{", "3", ",", "4", "}">>),
     PyStr(<<"{", "1", ",", "2", "}">>),
     PyStr(<<"[", "\"", "1", "\"", ",", "\"", "2", "\"", "]">>),
     PyStr(<<"[", "1", ",", " ", "2", ".", "5", "]">>),
     PyStr(<<"[", "[", "1", "]", ",", "[", "]", "]">>),
     PyStr(<<"1", ",", ",", "2">>),
     PyStr(<<"b", ",", " ", "a", ",", "b">>),
     PyStr(<<"{", "1", "}", ",", "{", "1", "}">>),
     PyStr(<<"{", "{", "1", "}", "}", ",", "2">>),
     PyStr(<<"{", "1", "]">>),
     PyStr(<<"1", ".", "5">>)}

Texts == {PyStr(cs) : cs \in SeqsUpTo(Alphabet, MaxStrLen)} \cup ExampleTexts

Leaves ==
    {None, PyInt(1), PyInt(2), T_1, T_a, T_empty,
     PyStr(<<" ", "a">>), PyStr(<<"a", ",", "b">>), PyStr(<<"{", "a">>),
     PyStr(<<"a", "\"">>), PyStr(<<"\\">>)}

TupleLeaves == {PyInt(1), T_1, T_a}

Inner ==
    {PyInt(1), T_a, PyList(<<>>), PyList(<<PyInt(1)>>), PyList(<<T_a, T_1>>),
     PyList(<<T_empty>>), PyTuple(<<PyInt(1), PyInt(2)>>), PyTuple(<<PyInt(1)>>)}

ExampleValues ==
    {PyInt(0), PyInt(5),
     PyList(<<T_1, T_2, T_3>>),
     PyList(<<T_a, T_b>>),
     PyList(<<PyStr(<<"1", ".", "5">>), PyStr(<<"2", ".", "5">>)>>),
     PyList(<<PyInt(3), PyInt(1), PyInt(2), PyInt(1)>>),
     PyList(<<PyInt(12), PyStr(<<"1", "2">>)>>),
     PyList(<<PyList(<<PyInt(1), PyInt(2)>>), PyList(<<PyInt(3), PyInt(4)>>)>>),
     PyList(<<PyInt(1), PyList(<<T_2, PyList(<<T_3>>)>>)>>),
     PyList(<<PyList(<<PyList(<<T_1, T_a>>)>>)>>),
     PyTuple(<<PyTuple(<<T_1>>), PyList(<<T_2, T_a>>)>>),
     PyList(<<PyStr(<<"a", ",", "b">>), PyList(<<PyInt(1), T_empty>>)>>)}

Inputs ==
    {None} \cup Texts \cup ExampleValues
    \cup {PyList(xs) : xs \in SeqsUpTo(Leaves, MaxListLen)}
    \cup {PyTuple(xs) : xs \in SeqsUpTo(TupleLeaves, MaxListLen)}
    \cup {PyList(xs) : xs \in SeqsUpTo(Inner, MaxListLen)}
    \cup {PyList(<<PyStr(cs)>>) : cs \in SeqsUpTo(Alphabet, MaxStrLen - 1)}

S_varchar_10 == S_varchar \o <<"(", "1", "0", ")">>
S_uuid == <<"u", "u", "i", "d">>
S_integer == <<"i", "n", "t", "e", "g", "e", "r">>
S_int_4 == <<"i", "n", "t", " ", "(", "4", ")">>

DbTypes ==
    {S_int, S_smallint, S_bigint, S_text, S_double_precision, S_varchar,
     S_varchar_10, S_uuid, S_integer, S_int_4}

\* the keyword arguments ArrayField is constructed with
FieldKwargs ==
    {[has_dbtype |-> FALSE, dbtype |-> <<>>, has_type_cast |-> FALSE, type_cast |-> ""]}
    \cup {[has_dbtype |-> TRUE, dbtype |-> d, has_type_cast |-> FALSE, type_cast |-> ""] :
            d \in DbTypes}
    \cup {[has_dbtype |-> TRUE, dbtype |-> d, has_type_cast |-> TRUE, type_cast |-> t] :
            d \in {S_int, S_uuid}, t \in {"float", "str"}}

\* the keyword arguments a form field is constructed with
FormKwargs ==
    {[has_item_field |-> FALSE, item_field |-> "none"],
     [has_item_field |-> TRUE, item_field |-> "Field"]}

-----------------------------------------------------------------------------
(* The state machine: an object is constructed, a method is called on a    *)
(* value, and a second method may be called on what the first returned     *)
(* (a form's text submitted back, a saved value read back).                *)

NoSelf == [cls |-> "none", _array_type |-> <<>>, _type_cast |-> "", item_field |-> "none"]
NoKwargs ==
    [has_dbtype |-> FALSE, dbtype |-> <<>>, has_type_cast |-> FALSE, type_cast |-> "",
     has_item_field |-> FALSE, item_field |-> "none"]
NoCall == [op |-> "", arg |-> None, prepared |-> FALSE]

\* the callables _cast_to_type is called with
TypeCasts == {"int", "str", "float", "identity"}

Init ==
    /\ self = NoSelf
    /\ kwargs = NoKwargs
    /\ op = ""
    /\ arg = None
    /\ prepared = FALSE
    /\ cast = ""
    /\ first = NoCall
    /\ out = Return(None)

\* the values the next call can be made with: any value after construction,
\* then what the first call returned
Args ==
    IF op = "__init__" THEN Inputs
    ELSE IF op # "" /\ self # NoSelf /\ first = NoCall /\ IsReturn(out) THEN {out.val}
    ELSE {}

Called(name, value, prep, result) ==
    /\ op' = name
    /\ arg' = value
    /\ prepared' = prep
    /\ out' = result
    /\ first' = IF op = "__init__" THEN NoCall
                ELSE [op |-> op, arg |-> arg, prepared |-> prepared]
    /\ UNCHANGED <<self, kwargs, cast>>

ArrayField_init ==
    /\ self = NoSelf
    /\ op = ""
    /\ \E kw \in FieldKwargs :
            /\ self' = ArrayField_new(kw)
            /\ kwargs' = [NoKwargs EXCEPT !.has_dbtype = kw.has_dbtype,
                                          !.dbtype = kw.dbtype,
                                          !.has_type_cast = kw.has_type_cast,
                                          !.type_cast = kw.type_cast]
    /\ op' = "__init__"
    /\ UNCHANGED <<arg, prepared, cast, first, out>>

FormField_init ==
    /\ self = NoSelf
    /\ op = ""
    /\ \E cls \in {"ArrayFormField", "SetFormField"}, kw \in FormKwargs :
            /\ self' = FormField_new(cls, kw)
            /\ kwargs' = [NoKwargs EXCEPT !.has_item_field = kw.has_item_field,
                                          !.item_field = kw.item_field]
    /\ op' = "__init__"
    /\ UNCHANGED <<arg, prepared, cast, first, out>>

\* the module-level helper, called on its own
Call_cast_to_type ==
    /\ self = NoSelf
    /\ op = ""
    /\ \E value \in Inputs, type_cast \in TypeCasts :
            /\ op' = "_cast_to_type"
            /\ arg' = value
            /\ cast' = type_cast
            /\ out' = _cast_to_type(value, type_cast)
    /\ UNCHANGED <<self, kwargs, prepared, first>>

Call_get_db_prep_value ==
    /\ self.cls = "ArrayField"
    /\ \E value \in Args, prep \in BOOLEAN :
            Called("get_db_prep_value", value, prep,
                   ArrayField_get_db_prep_value(self, value, prep))

Call_ArrayField_to_python ==
    /\ self.cls = "ArrayField"
    /\ \E value \in Args :
            Called("to_python", value, FALSE, ArrayField_to_python(value))

\* prepare_value is called with what the codec's Serialize is specified for:
\* an ordered sequence reaches edit_string_for_array, None and text do not;
\* with an item field the value is iterated first (line 127)
Call_prepare_value ==
    /\ self.cls \in {"ArrayFormField", "SetFormField"}
    /\ \E value \in Args :
            /\ \/ value = None
               \/ IsString(value)
               \/ IsListOrTuple(value)
               \/ self.item_field # "none"
            /\ Called("prepare_value", value, FALSE,
                   ArrayFormField_prepare_value(self, value))

Call_ArrayFormField_to_python ==
    /\ self.cls = "ArrayFormField"
    /\ \E value \in Args :
            Called("to_python", value, FALSE, ArrayFormField_to_python(value))

Call_SetFormField_to_python ==
    /\ self.cls = "SetFormField"
    /\ \E value \in Args :
            Called("to_python", value, FALSE, SetFormField_to_python(value))

Next ==
    \/ ArrayField_init
    \/ FormField_init
    \/ Call_cast_to_type
    \/ Call_get_db_prep_value
    \/ Call_ArrayField_to_python
    \/ Call_prepare_value
    \/ Call_ArrayFormField_to_python
    \/ Call_SetFormField_to_python

Spec == Init /\ [][Next]_vars

-----------------------------------------------------------------------------
(* What the properties are stated with *)

\* the scalars of a value, left to right
RECURSIVE LeavesOf(_)
RECURSIVE LeavesOfItems(_)
LeavesOfItems(xs) ==
    IF xs = <<>> THEN <<>> ELSE LeavesOf(xs[1]) \o LeavesOfItems(Tail(xs))

LeavesOf(v) == IF IsListOrTuple(v) THEN LeavesOfItems(v.items) ELSE <<v>>

\* the nesting of a value, lists and tuples alike
RECURSIVE Shape(_)
Shape(v) ==
    IF IsListOrTuple(v)
    THEN [leaf |-> FALSE, sub |-> [n \in 1..Len(v.items) |-> Shape(v.items[n])]]
    ELSE [leaf |-> TRUE, sub |-> <<>>]

\* no tuple anywhere in v
RECURSIVE NoTuples(_)
NoTuples(v) ==
    /\ v.k # "tuple"
    /\ IsListOrTuple(v) => \A n \in 1..Len(v.items) : NoTuples(v.items[n])

Elems(v) == {v.items[n] : n \in 1..Len(v.items)}

-----------------------------------------------------------------------------
(* C1 *)

SupportedScalar(x) == x.k \in {"int", "str"}

\* the form field has parsed the text it serialized a sequence to
RoundTripped ==
    /\ self.cls = "ArrayFormField"
    /\ op = "to_python"
    /\ first.op = "prepare_value"
    /\ IsListOrTuple(first.arg)

\* the parsed value equals the original after coercion to int and to text,
\* whichever the original's elements can be coerced to
RoundTripEqual ==
    /\ IsReturn(out)
    /\ \A tc \in {"int", "str"} :
          IsReturn(_cast_to_type(first.arg, tc))
             => _cast_to_type(out.val, tc) = _cast_to_type(first.arg, tc)

-----------------------------------------------------------------------------
(* C2 *)

\* the declared type, 'int' when no dbtype is given
DeclaredType == IF kwargs.has_dbtype THEN kwargs.dbtype ELSE S_int

\* name is the part of t before its first "("
IsBaseName(name, t) ==
    /\ Len(name) <= Len(t)
    /\ SubSeq(t, 1, Len(name)) = name
    /\ \A n \in 1..Len(name) : name[n] # "("
    /\ Len(name) < Len(t) => t[Len(name) + 1] = "("

\* C2: a constructed ArrayField holds the explicit type_cast when one is
\* given; otherwise int for the base names int, smallint and bigint, text
\* conversion for text and varchar, float for double precision, and the
\* identity for every other base name, the base name being the part of dbtype
\* before the first "(".
C2_CoercionSelection ==
    self.cls = "ArrayField" =>
        /\ self._array_type = DeclaredType
        /\ kwargs.has_type_cast => self._type_cast = kwargs.type_cast
        /\ ~kwargs.has_type_cast =>
              \A m \in 0..Len(DeclaredType) :
                 LET name == SubSeq(DeclaredType, 1, m)
                 IN  IsBaseName(name, DeclaredType) =>
                        self._type_cast =
                           IF name \in {S_int, S_smallint, S_bigint} THEN "int"
                           ELSE IF name \in {S_text, S_varchar} THEN "str"
                           ELSE IF name = S_double_precision THEN "float"
                           ELSE "identity"

C2_Witness ==
    /\ self.cls = "ArrayField"
    /\ kwargs.has_dbtype
    /\ kwargs.dbtype = S_varchar_10
    /\ ~kwargs.has_type_cast
    /\ self._type_cast = "str"

-----------------------------------------------------------------------------
(* C3 *)

\* C3: _cast_to_type of a list or tuple whose scalars the coercion accepts
\* returns lists nested as the input is, holding, in order, the coercion of
\* each scalar of the input; ["1","2","3"] under int is [1,2,3] and ["a","b"]
\* under text is ["a","b"].
C3_ElementwiseCoercion ==
    (op = "_cast_to_type" /\ IsListOrTuple(arg)) =>
        /\ (\A n \in 1..Len(LeavesOf(arg)) : IsReturn(CallTypeCast(cast, LeavesOf(arg)[n])))
              => /\ IsReturn(out)
                 /\ out.val.k = "list"
                 /\ NoTuples(out.val)
                 /\ Shape(out.val) = Shape(arg)
                 /\ LeavesOf(out.val)
                       = [n \in 1..Len(LeavesOf(arg)) |->
                             CallTypeCast(cast, LeavesOf(arg)[n]).val]
        /\ (arg = PyList(<<T_1, T_2, T_3>>) /\ cast = "int")
              => out = Return(PyList(<<PyInt(1), PyInt(2), PyInt(3)>>))
        /\ (arg = PyList(<<T_a, T_b>>) /\ cast = "str")
              => out = Return(PyList(<<T_a, T_b>>))

C3_Witness ==
    /\ op = "_cast_to_type"
    /\ cast = "int"
    /\ arg = PyList(<<PyInt(1), PyList(<<T_2, PyList(<<T_3>>)>>)>>)
    /\ out = Return(PyList(<<PyInt(1), PyList(<<PyInt(2), PyList(<<PyInt(3)>>)>>)>>))

-----------------------------------------------------------------------------
(* C4 *)

\* a field has parsed a value that is a list or tuple
ParsedSequence ==
    /\ self.cls \in {"ArrayFormField", "ArrayField"}
    /\ op = "to_python"
    /\ IsListOrTuple(arg)

\* C4 as stated: to_python of a list or tuple returns it unchanged, container
\* kinds included, in the form field and in the model field.
C4_PassThroughUnchanged == ParsedSequence => out = Return(arg)

\* C4, amended: the form field returns a list or tuple unchanged; the model
\* field returns lists nested as the input is, holding the same scalars in
\* the same order, a tuple of the input being a list of the result (an input
\* without tuples is returned equal); parsing the result again returns it
\* unchanged.
C4_PassThroughUpToTuples ==
    ParsedSequence =>
        /\ IsReturn(out)
        /\ self.cls = "ArrayFormField" => out.val = arg
        /\ self.cls = "ArrayField" =>
              /\ Shape(out.val) = Shape(arg)
              /\ LeavesOf(out.val) = LeavesOf(arg)
              /\ NoTuples(out.val)
              /\ NoTuples(arg) => out.val = arg
        /\ first.op = "to_python" => out.val = arg

C4_Witness ==
    /\ self.cls = "ArrayField"
    /\ op = "to_python"
    /\ first.op = "to_python"
    /\ first.arg = PyTuple(<<PyTuple(<<T_1>>), PyList(<<T_2, T_a>>)>>)
    /\ arg = PyList(<<PyList(<<T_1>>), PyList(<<T_2, T_a>>)>>)
    /\ out = Return(arg)

-----------------------------------------------------------------------------
(* C5 *)

\* the characters of cs that are neither quotes nor between two quotes; in
\* text without a backslash every quote opens or closes quoted text
RECURSIVE Unquoted(_, _)
Unquoted(cs, inq) ==
    IF cs = <<>> THEN <<>>
    ELSE IF cs[1] = "\"" THEN Unquoted(Tail(cs), ~inq)
    ELSE IF inq THEN Unquoted(Tail(cs), inq)
    ELSE <<cs[1]>> \o Unquoted(Tail(cs), inq)

CountOpeners(cs) == Cardinality({n \in 1..Len(cs) : cs[n] \in {"{", "["}})
CountClosers(cs) == Cardinality({n \in 1..Len(cs) : cs[n] \in {"}", "]"}})
CountQuotes(cs) == Cardinality({n \in 1..Len(cs) : cs[n] = "\""})
NoBackslash(cs) == \A n \in 1..Len(cs) : cs[n] # "\\"

\* the form field has parsed text
ParsedText ==
    /\ self.cls = "ArrayFormField"
    /\ op = "to_python"
    /\ IsString(arg)

\* C5: when parse_array fails on the submitted text, ArrayFormField.to_python
\* ends in a ValidationError with the one fixed message, and in nothing else:
\* it returns only what parse_array returned, and text with as many opening as
\* closing braces outside quoted text, such as "{1,2,", is refused, as is
\* text with a quote left open.
C5_MalformedIsValidationError ==
    ParsedText =>
        /\ ~IsReturn(parse_array(arg))
              => out = RaiseMsg("ValidationError", ValidationMessage)
        /\ IsReturn(out) => out = parse_array(arg)
        /\ (/\ NoBackslash(arg.s)
            /\ \/ CountOpeners(Unquoted(arg.s, FALSE)) # CountClosers(Unquoted(arg.s, FALSE))
               \/ CountQuotes(arg.s) % 2 = 1)
              => out = RaiseMsg("ValidationError", ValidationMessage)
        /\ (CountQuotes(arg.s) = 0 /\ CountOpeners(arg.s) # CountClosers(arg.s))
              => out = RaiseMsg("ValidationError", ValidationMessage)

C5_Witness ==
    /\ ParsedText
    /\ arg = PyStr(<<"{", "1", ",", "2", ",">>)
    /\ out = RaiseMsg("ValidationError", ValidationMessage)

-----------------------------------------------------------------------------
(* C6 *)

\* C6: get_db_prep_value of a list or tuple holding a scalar that the field's
\* coercion rejects ends in an error, whatever `prepared` is.
C6_CoercionFailurePropagates ==
    (/\ op = "get_db_prep_value"
     /\ IsListOrTuple(arg)
     /\ \E n \in 1..Len(LeavesOf(arg)) :
           ~IsReturn(CallTypeCast(self._type_cast, LeavesOf(arg)[n])))
        => ~IsReturn(out)

C6_Witness ==
    /\ op = "get_db_prep_value"
    /\ self._type_cast = "int"
    /\ ~prepared
    /\ arg = PyList(<<T_1, T_a>>)
    /\ out = Raise("ValueError")

-----------------------------------------------------------------------------
(* C7 *)

\* every two elements of S can be compared
Orderable(S) == \A x, y \in S : Compare(x, y) # "err"

\* SetFormField has parsed a value whose standard parse is a sequence of
\* mutually orderable elements
ParsedOrderable ==
    /\ self.cls = "SetFormField"
    /\ op = "to_python"
    /\ arg # None
    /\ IsReturn(ArrayFormField_to_python(arg))
    /\ IsListOrTuple(ArrayFormField_to_python(arg).val)
    /\ Orderable(Elems(ArrayFormField_to_python(arg).val))

\* the result is the distinct elements of the standard parse, ascending
DistinctAscending ==
    /\ IsReturn(out)
    /\ out.val.k = "list"
    /\ Elems(out.val) = Elems(ArrayFormField_to_python(arg).val)
    /\ \A m, n \in 1..Len(out.val.items) :
          m < n => Compare(out.val.items[m], out.val.items[n]) = "lt"

NoneIsNone ==
    (self.cls = "SetFormField" /\ op = "to_python" /\ arg = None) => out = Return(None)

\* C7 as stated: SetFormField.to_python returns the distinct elements in
\* strictly ascending order whenever the standard parse is a sequence of
\* mutually orderable elements, and None for None.
C7_DedupSortOrderable ==
    /\ ParsedOrderable => DistinctAscending
    /\ NoneIsNone

\* C7, amended: SetFormField.to_python returns the distinct elements in
\* strictly ascending order whenever the standard parse is a sequence of
\* mutually orderable hashable elements (integers, text, tuples of these: a
\* nested list is not hashable), and None for None.
C7_DedupSortHashable ==
    /\ (ParsedOrderable /\ \A x \in Elems(ArrayFormField_to_python(arg).val) : Hashable(x))
          => DistinctAscending
    /\ NoneIsNone

C7_Witness ==
    /\ self.cls = "SetFormField"
    /\ op = "to_python"
    /\ arg = PyStr(<<"3", ",", "1", ",", "2", ",", "1">>)
    /\ out = Return(PyList(<<T_1, T_2, T_3>>))

-----------------------------------------------------------------------------
(* C8 *)

\* a field has parsed the empty text or None
ParsedEmpty ==
    /\ self.cls \in {"ArrayFormField", "ArrayField"}
    /\ op = "to_python"
    /\ arg \in {T_empty, None}

\* C8 as stated: to_python of "" and of None returns the empty sequence or
\* None, in the form field and in the model field.
C8_EmptyIsEmptySequenceOrNone ==
    ParsedEmpty => (IsReturn(out) /\ out.val \in {None, PyList(<<>>), PyTuple(<<>>)})

\* C8, amended: to_python of "" and of None raises nothing; None gives None in
\* both fields, "" gives the empty list in the form field and the empty text
\* itself in the model field.
C8_EmptyIsEmptyOrNone ==
    ParsedEmpty =>
        /\ IsReturn(out)
        /\ arg = None => out.val = None
        /\ (arg = T_empty /\ self.cls = "ArrayFormField") => out.val = PyList(<<>>)
        /\ (arg = T_empty /\ self.cls = "ArrayField") => out.val = T_empty

C8_Witness ==
    /\ self.cls = "ArrayField"
    /\ op = "to_python"
    /\ first = NoCall
    /\ arg = T_empty
    /\ out = Return(T_empty)

-----------------------------------------------------------------------------
(* C9 *)

\* C9: get_db_prep_value called with prepared=True returns the value as it
\* is, no element coerced.
C9_PreparedIsVerbatim ==
    (op = "get_db_prep_value" /\ prepared) => out = Return(arg)

-----------------------------------------------------------------------------
(* C10 *)

\* C10: ArrayField.to_python returns a sequence whose elements have been
\* coerced to the field's type, so that coercing it again changes nothing;
\* an int field reading ["1","2"] yields [1,2].
C10_ReadPathCoerces ==
    (self.cls = "ArrayField" /\ op = "to_python" /\ IsReturn(out)
        /\ IsListOrTuple(out.val) /\ IsReturn(_cast_to_type(out.val, self._type_cast)))
        => /\ _cast_to_type(out.val, self._type_cast) = out
           /\ (self._type_cast = "int" /\ arg = PyList(<<T_1, T_2>>))
                 => out.val = PyList(<<PyInt(1), PyInt(2)>>)

=============================================================================
